---- MODULE Spec2Model ----
\* Block-range scanning loop of the bridge event listener (src/script.py):
\* BridgeEventListener with its checkpoint file, the chain node it polls,
\* EventProcessor.parse_event and TransactionRelayer.relay_transaction.
EXTENDS Integers, Sequences, FiniteSets, TLC

\* ---------------------------------------------------------------- bounds
\* Highest block height the chain reaches.
MaxHeight == 12
\* Largest BLOCK_CHUNK_SIZE tried (the smallest is -1: int(os.getenv(...))
\* accepts every integer).
MaxChunk == 2
\* Most raw logs one range query returns.
MaxLogs == 2
\* A cursor that a negative chunk size drives below zero is followed down to
\* -MaxDepth.
MaxDepth == 1

\* ------------------------------------------------------- program constants
REORG_SAFETY_MARGIN == 10

Max(a, b) == IF a >= b THEN a ELSE b
Min(a, b) == IF a <= b THEN a ELSE b

\* ------------------------------------------------- text of the state file
\* The state file holds text; str() writes decimal digits and int() reads
\* them back, raising ValueError on anything else.
DigitChar == <<"0", "1", "2", "3", "4", "5", "6", "7", "8", "9">>

IsDigit(c) == \E d \in 1..10 : DigitChar[d] = c

DigitVal(c) == (CHOOSE d \in 1..10 : DigitChar[d] = c) - 1

RECURSIVE NatStr(_)
NatStr(n) == IF n < 10 THEN <<DigitChar[n + 1]>>
             ELSE NatStr(n \div 10) \o <<DigitChar[(n % 10) + 1]>>

\* str(block_number)
PyStr(n) == IF n < 0 THEN <<"-">> \o NatStr(0 - n) ELSE NatStr(n)

AllDigits(s) == Len(s) >= 1 /\ \A i \in 1..Len(s) : IsDigit(s[i])

\* whether int(text) succeeds (no ValueError)
IsIntText(s) == \/ AllDigits(s)
                \/ Len(s) >= 2 /\ s[1] = "-" /\ AllDigits(Tail(s))

RECURSIVE DigitsVal(_)
DigitsVal(s) == IF Len(s) = 0 THEN 0
                ELSE 10 * DigitsVal(SubSeq(s, 1, Len(s) - 1)) + DigitVal(s[Len(s)])

\* int(text), for a text int() accepts
PyInt(s) == IF s[1] = "-" THEN 0 - DigitsVal(Tail(s)) ELSE DigitsVal(s)

\* The state file: absent, or present with some text.
NoFile == [exists |-> FALSE, text |-> <<>>]
FileWith(s) == [exists |-> TRUE, text |-> s]

\* ------------------------------------------------------------- raw logs
\* A raw log as parse_event reads it.  "<absent>" marks a key that is not in
\* the dict; amount_type "str" is an amount of the wrong type; transactionHash
\* "str" is a hash without a .hex() method, "bytes" one with it.
Absent == "<absent>"

ValidLog == [sender |-> "0xA", recipient |-> "0xB", amount_type |-> "int",
             amount |-> 1, transactionHash |-> "bytes"]

RawLogs == { ValidLog,
             [ValidLog EXCEPT !.sender = ""],
             [ValidLog EXCEPT !.recipient = Absent],
             [ValidLog EXCEPT !.amount = 0],
             [ValidLog EXCEPT !.amount_type = "str"],
             [ValidLog EXCEPT !.transactionHash = Absent],
             [ValidLog EXCEPT !.transactionHash = "str"],
             [ValidLog EXCEPT !.amount = 0, !.transactionHash = "str"] }


\* ------------------------------------------------- EventProcessor
\* parse_event: "event" (a BridgeTransferEvent is returned), "none" (None is
\* returned) or "raise" (an exception leaves parse_event).  The lookups run in
\* the order of the constructor call; KeyError and TypeError are caught,
\* the AttributeError of a hash without .hex() is not.
parse_event(event_log) ==
    IF event_log.sender = Absent \/ event_log.recipient = Absent
       \/ event_log.amount_type = Absent THEN "none"
    ELSE IF event_log.transactionHash = Absent THEN "none"
    ELSE IF event_log.transactionHash # "bytes" THEN "raise"
    ELSE IF event_log.amount_type # "int" THEN "none"
    ELSE IF ~(event_log.sender # "" /\ event_log.recipient # ""
              /\ event_log.amount > 0) THEN "none"
    ELSE "event"

\* ------------------------------------------------- TransactionRelayer
\* What the POST can end in: a 2xx answer, or one of the
\* requests.exceptions.RequestException kinds.
RelayOutcomes == {"2xx", "connection_error", "timeout", "http_error"}

\* relay_transaction: "True", "False", or "raise" when an exception leaves it.
relay_transaction(outcome) == IF outcome = "2xx" THEN "True" ELSE "False"

\* ------------------------------------------------- BlockchainConnector
\* get_latest_block_number: the height, or 0 when the query raises.
get_latest_block_number(ok, height) == IF ok THEN height ELSE 0

FetchOutcomes == {"ok", "BlockNotFound", "error"}

\* A query that hands back what it found although it raised.
events_despite_failure(outcome, found) == found

\* get_events_in_range: how many entries the returned list has, the query
\* having found `found` of them: [] when the query raises.
get_events_in_range(outcome, found) == IF outcome = "ok" THEN found ELSE 0

\* How many entries a node can hold for [from, to]: none for an empty range.
EntryCounts(from, to) == IF from > to THEN {0} ELSE 0..MaxLogs

\* ------------------------------------------------- BridgeEventListener
\* A load that resumes at the saved height itself, without the margin.
load_without_margin(f, latest) ==
    IF f.exists /\ IsIntText(f.text) THEN PyInt(f.text) ELSE latest

\* _load_last_processed_block: the cursor the constructor starts from.
\* `latest` is what get_latest_block_number answers in the fallback.
load_last_processed_block(f, latest) ==
    IF f.exists /\ IsIntText(f.text)
    THEN Max(0, PyInt(f.text) - REORG_SAFETY_MARGIN)
    ELSE latest

\* What open(STATE_FILE, 'w') and the write can end in: both succeed, open
\* raises (the file is left alone), or open truncates and the write raises.
SaveOutcomes == {"ok", "open_error", "write_error"}

\* _save_last_processed_block: the state file afterwards; IOError is caught.
save_last_processed_block(f, block_number, io) ==
    CASE io = "ok" -> FileWith(PyStr(block_number))
      [] io = "open_error" -> f
      [] OTHER -> FileWith(<<>>)

\* run, line 262: the upper end of the range to scan.
ToBlock(cursor, chunk, latest) == Min(cursor + chunk, latest)

\* run, line 263: the lower end of the range to scan.
FromBlock(cursor) == cursor + 1

\* A pacing that always sleeps the full poll interval.
PacingAlwaysFull(to, latest) == "poll_interval"

\* run, lines 282-285: the pacing after a scanned chunk.  A sleep is modelled
\* by which delay is asked for; poll_interval_seconds is a delay time.sleep
\* accepts.
Pacing(to, latest) == IF to < latest THEN "short" ELSE "poll_interval"

VARIABLES
    pc,                   \* where the process is: "init" (constructor),
                          \* "poll" (top of the loop), "fetch" (range computed),
                          \* "proc" (in the chunk), "stopped" (loop left)
    file,                 \* the state file
    tip,                  \* the chain's height when it was last observed
    chunk_size,           \* config['BLOCK_CHUNK_SIZE']
    last_processed_block, \* the in-memory cursor
    latest_block, from_block, to_block,   \* locals of run
    raw_events,           \* len(raw_events); the content of an entry is drawn
                          \* when the for loop reads it
    idx,                  \* position of the for loop in raw_events
    event_log,            \* the entry the for loop read last
    parsed_event,         \* what parse_event made of it
    attempts,             \* relay attempts of this pass:
                          \* <<position, event, result>>
    fetched,              \* how the range query of this pass ended
    iter,                 \* the iteration under way ("scanning"), or how the
                          \* last one ended and the sleep that followed it
    startup,              \* what the constructor did: whether the cursor came
                          \* from the state file and, when it did not, the
                          \* chain's height at that moment
    requested,            \* the last range asked from the node in this run,
                          \* the latest height it was computed from, and
                          \* whether an event of it went to the relay
    saved_by_run          \* the state file holds a height this run wrote

vars == <<pc, file, tip, chunk_size, last_processed_block, latest_block,
          from_block, to_block, raw_events, idx, event_log, parsed_event,
          attempts, fetched, iter, startup, requested, saved_by_run>>

NoIter == [kind |-> "none", sleep |-> "none"]
NoStartup == [done |-> FALSE, from_file |-> FALSE, tip |-> 0]
NoRequest == [any |-> FALSE, from |-> 0, to |-> 0, latest |-> 0,
              relayed |-> FALSE]

\* The range about to be asked for, as `requested` keeps it.  `relayed`: an
\* event of one of its blocks went to the relay; at this point, that the
\* range shares a block with the range asked before it and an event of that
\* one went to the relay.
Request ==
    [any |-> TRUE, from |-> from_block, to |-> to_block,
     latest |-> latest_block,
     relayed |-> /\ requested.any /\ requested.relayed
                 /\ from_block <= requested.to /\ requested.from <= to_block]

\* No entry read: the for loop has not run in this pass.
NoLog == [sender |-> Absent, recipient |-> Absent, amount_type |-> Absent,
          amount |-> 0, transactionHash |-> Absent]

InitFiles == {NoFile, FileWith(<<>>), FileWith(<<"x">>)}
             \cup {FileWith(PyStr(n)) : n \in 0..MaxHeight}

Init ==
    /\ pc = "init"
    /\ file \in InitFiles
    /\ tip \in 0..MaxHeight
    /\ chunk_size \in (0 - 1)..MaxChunk
    /\ last_processed_block = 0
    /\ latest_block = 0
    /\ from_block = 0
    /\ to_block = 0
    /\ raw_events = 0
    /\ idx = 0
    /\ event_log = NoLog
    /\ parsed_event = "none"
    /\ attempts = <<>>
    /\ fetched = "none"
    /\ iter = NoIter
    /\ startup = NoStartup
    /\ requested = NoRequest
    /\ saved_by_run = FALSE

\* __init__, line 218: load the cursor; without a readable number in the
\* state file the chain is asked for its height.
Load ==
    /\ pc = "init"
    /\ \E ok \in BOOLEAN, h \in tip..MaxHeight :
         LET from_file == file.exists /\ IsIntText(file.text)
             height == IF from_file THEN tip ELSE h
         IN /\ tip' = height
            /\ last_processed_block' =
                 load_last_processed_block(file, get_latest_block_number(ok, height))
            /\ startup' = [done |-> TRUE, from_file |-> from_file,
                           tip |-> IF from_file THEN 0 ELSE height]
    /\ pc' = "poll"
    /\ UNCHANGED <<file, chunk_size, latest_block, from_block, to_block,
                   raw_events, idx, event_log, parsed_event, attempts, fetched,
                   iter, requested, saved_by_run>>

\* A loop without the check of lines 249-252: a height of 0 is taken as any
\* other height.
PollTrustingZero ==
    /\ pc = "poll"
    /\ \E ok \in BOOLEAN, h \in tip..MaxHeight :
         LET latest == get_latest_block_number(ok, h)
         IN /\ tip' = IF ok THEN h ELSE tip
            /\ latest_block' = latest
            /\ IF last_processed_block >= latest
               THEN /\ iter' = [kind |-> "no_new_blocks", sleep |-> "poll_interval"]
                    /\ UNCHANGED <<pc, from_block, to_block>>
               ELSE /\ to_block' = ToBlock(last_processed_block, chunk_size, latest)
                    /\ from_block' = FromBlock(last_processed_block)
                    /\ to_block' >= 0 - MaxDepth
                    /\ pc' = "fetch"
                    /\ iter' = [kind |-> "scanning", sleep |-> "none"]
    /\ UNCHANGED <<file, chunk_size, last_processed_block, raw_events, idx,
                   event_log, parsed_event, attempts, fetched, startup,
                   requested, saved_by_run>>

\* A loop without the check of lines 255-258: a range is computed whenever
\* the height is known.
PollWithoutWaiting ==
    /\ pc = "poll"
    /\ \E ok \in BOOLEAN, h \in tip..MaxHeight :
         LET latest == get_latest_block_number(ok, h)
         IN /\ tip' = IF ok THEN h ELSE tip
            /\ latest_block' = latest
            /\ IF latest = 0
               THEN /\ iter' = [kind |-> "unavailable", sleep |-> "poll_interval"]
                    /\ UNCHANGED <<pc, from_block, to_block>>
               ELSE /\ to_block' = ToBlock(last_processed_block, chunk_size, latest)
                    /\ from_block' = FromBlock(last_processed_block)
                    /\ to_block' >= 0 - MaxDepth
                    /\ pc' = "fetch"
                    /\ iter' = [kind |-> "scanning", sleep |-> "none"]
    /\ UNCHANGED <<file, chunk_size, last_processed_block, raw_events, idx,
                   event_log, parsed_event, attempts, fetched, startup,
                   requested, saved_by_run>>

\* run, lines 248-265: ask for the height, then wait or compute the range.
Poll ==
    /\ pc = "poll"
    /\ \E ok \in BOOLEAN, h \in tip..MaxHeight :
         LET latest == get_latest_block_number(ok, h)
         IN /\ tip' = IF ok THEN h ELSE tip
            /\ latest_block' = latest
            /\ IF latest = 0
               THEN /\ iter' = [kind |-> "unavailable", sleep |-> "poll_interval"]
                    /\ UNCHANGED <<pc, from_block, to_block>>
               ELSE IF last_processed_block >= latest
               THEN /\ iter' = [kind |-> "no_new_blocks", sleep |-> "poll_interval"]
                    /\ UNCHANGED <<pc, from_block, to_block>>
               ELSE /\ to_block' = ToBlock(last_processed_block, chunk_size, latest)
                    /\ from_block' = FromBlock(last_processed_block)
                    /\ to_block' >= 0 - MaxDepth
                    /\ pc' = "fetch"
                    /\ iter' = [kind |-> "scanning", sleep |-> "none"]
    /\ UNCHANGED <<file, chunk_size, last_processed_block, raw_events, idx,
                   event_log, parsed_event, attempts, fetched, startup,
                   requested, saved_by_run>>

\* A loop that writes the checkpoint as soon as the range is fetched, before
\* the chunk is processed.
FetchSavingFirst ==
    /\ pc = "fetch"
    /\ \E outcome \in FetchOutcomes, found \in EntryCounts(from_block, to_block) :
         /\ raw_events' = get_events_in_range(outcome, found)
         /\ fetched' = outcome
    /\ idx' = 1
    /\ event_log' = NoLog
    /\ parsed_event' = "none"
    /\ attempts' = <<>>
    /\ requested' = Request
    /\ file' = save_last_processed_block(file, to_block, "ok")
    /\ saved_by_run' = TRUE
    /\ pc' = "proc"
    /\ UNCHANGED <<tip, chunk_size, last_processed_block, latest_block,
                   from_block, to_block, iter, startup>>

\* run, line 267: ask the node for the events of the range.
Fetch ==
    /\ pc = "fetch"
    /\ \E outcome \in FetchOutcomes, found \in EntryCounts(from_block, to_block) :
         /\ raw_events' = get_events_in_range(outcome, found)
         /\ fetched' = outcome
    /\ idx' = 1
    /\ event_log' = NoLog
    /\ parsed_event' = "none"
    /\ attempts' = <<>>
    /\ requested' = Request
    /\ pc' = "proc"
    /\ UNCHANGED <<file, tip, chunk_size, last_processed_block, latest_block,
                   from_block, to_block, iter, startup, saved_by_run>>

\* A handler that ends the loop when an exception reaches it.
FailedLeavingLoop ==
    /\ pc' = "stopped"
    /\ iter' = [kind |-> "error", sleep |-> "double"]
    /\ raw_events' = 0
    /\ idx' = 0
    /\ attempts' = <<>>

\* run, lines 290-293: an exception ends the iteration; sleep twice the
\* poll interval and go on with the next one.  The locals of the pass are
\* dead from here on.
Failed ==
    /\ pc' = "poll"
    /\ iter' = [kind |-> "error", sleep |-> "double"]
    /\ raw_events' = 0
    /\ idx' = 0
    /\ attempts' = <<>>

\* run, lines 270-275: one turn of the for loop: parse, and relay what parsed.
ProcessLog ==
    /\ pc = "proc"
    /\ idx <= raw_events
    /\ \E entry \in RawLogs :
         /\ event_log' = entry
         /\ parsed_event' = parse_event(entry)
         /\ CASE parsed_event' = "raise" -> Failed /\ UNCHANGED requested
              [] parsed_event' = "none" ->
                   /\ idx' = idx + 1
                   /\ UNCHANGED <<pc, raw_events, attempts, iter, requested>>
              [] OTHER ->
                   \E outcome \in RelayOutcomes :
                      LET sent == relay_transaction(outcome)
                      IN /\ requested' = [requested EXCEPT !.relayed = TRUE]
                         /\ IF sent = "raise" THEN Failed
                            ELSE /\ attempts' = Append(attempts, <<idx, entry, sent>>)
                                 /\ idx' = idx + 1
                                 /\ UNCHANGED <<pc, raw_events, iter>>
    /\ UNCHANGED <<file, tip, chunk_size, last_processed_block, latest_block,
                   from_block, to_block, fetched, startup, saved_by_run>>

\* run, lines 278-285: after the for loop, save the cursor, advance it, sleep.
\* The locals of the pass are dead from here on.
Save ==
    /\ pc = "proc"
    /\ idx > raw_events
    /\ \E io \in SaveOutcomes :
         /\ file' = save_last_processed_block(file, to_block, io)
         /\ saved_by_run' = IF io = "ok" THEN TRUE
                            ELSE IF io = "open_error" THEN saved_by_run
                            ELSE FALSE
    /\ last_processed_block' = to_block
    /\ iter' = [kind |-> "scanned", sleep |-> Pacing(to_block, latest_block)]
    /\ raw_events' = 0
    /\ idx' = 0
    /\ event_log' = NoLog
    /\ parsed_event' = "none"
    /\ attempts' = <<>>
    /\ pc' = "poll"
    /\ UNCHANGED <<tip, chunk_size, latest_block, from_block, to_block, fetched,
                   startup, requested>>

\* What is left of the memory of a process that has ended.
Forgotten ==
    /\ last_processed_block' = 0
    /\ latest_block' = 0
    /\ from_block' = 0
    /\ to_block' = 0
    /\ raw_events' = 0
    /\ idx' = 0
    /\ event_log' = NoLog
    /\ parsed_event' = "none"
    /\ attempts' = <<>>
    /\ fetched' = "none"
    /\ iter' = NoIter
    /\ startup' = NoStartup
    /\ requested' = NoRequest
    /\ saved_by_run' = FALSE

\* run, lines 287-289: KeyboardInterrupt leaves the loop, wherever it arrives,
\* and the script ends.
Interrupt ==
    /\ pc \in {"poll", "fetch", "proc"}
    /\ pc' = "stopped"
    /\ Forgotten
    /\ UNCHANGED <<file, tip, chunk_size>>

\* The process ends (exit or kill) and the script is started again: only the
\* state file and the configuration outlive it.
Restart ==
    /\ pc # "init"
    /\ pc' = "init"
    /\ Forgotten
    /\ UNCHANGED <<file, tip, chunk_size>>

\* The process is killed inside _save_last_processed_block, lines 238-239:
\* open(STATE_FILE, 'w') has truncated the file and the write has not reached
\* it; the script is started again.
CrashInSave ==
    /\ pc = "proc"
    /\ idx > raw_events
    /\ file' = FileWith(<<>>)
    /\ pc' = "init"
    /\ Forgotten
    /\ UNCHANGED <<tip, chunk_size>>

Next ==
    Load \/ Poll \/ Fetch \/ ProcessLog \/ Save \/ Interrupt \/ Restart
    \/ CrashInSave

Spec == Init /\ [][Next]_vars

TypeOK ==
    /\ pc \in {"init", "poll", "fetch", "proc", "stopped"}
    /\ tip \in 0..MaxHeight
    /\ last_processed_block \in (0 - MaxDepth)..MaxHeight

\* ------------------------------------------------------------------ claims

\* The first range of a run is computed and not yet asked for; the state file
\* is still as the constructor read it.
FirstScan == pc = "fetch" /\ ~requested.any

\* The height the state file held when the constructor read it, in FirstScan.
SavedCursor == PyInt(file.text)

\* C1 as claimed: on a restart with a saved cursor C >= 0 the first scan range
\* starts at max(0, C - REORG_SAFETY_MARGIN) + 1 and never at C + 1.
C1_FirstScanNeverAtCPlus1 ==
    (FirstScan /\ startup.from_file /\ SavedCursor >= 0)
    => /\ from_block = Max(0, SavedCursor - REORG_SAFETY_MARGIN) + 1
       /\ from_block # SavedCursor + 1

\* C1 amended: on a restart with a saved cursor C >= 0 the first scan range
\* starts at max(0, C - REORG_SAFETY_MARGIN) + 1; that is below C + 1 for every
\* C >= 1, and is C + 1 itself when C = 0.
C1_FirstScanAppliesMargin ==
    (FirstScan /\ startup.from_file /\ SavedCursor >= 0)
    => /\ from_block = Max(0, SavedCursor - REORG_SAFETY_MARGIN) + 1
       /\ SavedCursor >= 1 => from_block < SavedCursor + 1
       /\ SavedCursor = 0 => from_block = SavedCursor + 1

\* C1 witness: a first scan after a saved cursor above the margin.
C1_Witness ==
    /\ FirstScan /\ startup.from_file
    /\ SavedCursor > REORG_SAFETY_MARGIN
    /\ from_block = SavedCursor - REORG_SAFETY_MARGIN + 1

\* C2: started without a readable number in the state file, the cursor is the
\* chain's height at startup and no range of the run reaches a block at or
\* below that height, however the startup query ended.
C2_NoBackfill ==
    (startup.done /\ ~startup.from_file)
    => /\ (pc = "poll" /\ iter.kind = "none") => last_processed_block = startup.tip
       /\ FirstScan => from_block = startup.tip + 1
       /\ pc \in {"fetch", "proc"} => from_block > startup.tip

\* A step of the running process (not its end, not its start).
InRun == pc \in {"poll", "fetch", "proc"} /\ pc' \in {"poll", "fetch", "proc"}

\* The step that ends a scanning iteration by saving.
SaveStep == pc = "proc" /\ pc' = "poll" /\ iter'.kind = "scanned"

\* C3: within one run the in-memory cursor never decreases, and each scanning
\* iteration that completes leaves it at the `to` of its range.
C3_CursorMonotone ==
    [][InRun => /\ last_processed_block' >= last_processed_block
                /\ SaveStep => last_processed_block' = to_block]_vars

\* C4: every range the loop asks the node for has from = cursor + 1,
\* to = min(cursor + chunkSize, latestHeight) and to >= from.
C4_RangeWellFormed ==
    pc \in {"fetch", "proc"}
    => /\ from_block = last_processed_block + 1
       /\ to_block = Min(last_processed_block + chunk_size, latest_block)
       /\ to_block >= from_block

\* C5: while the state file holds a height h this run wrote, no log of a range
\* ending at or below h is waiting to be decoded and relayed.
C5_SaveAfterDispatch ==
    (saved_by_run /\ pc = "proc" /\ idx <= raw_events)
    => to_block > PyInt(file.text)

\* C5 witness: in the middle of a chunk that starts right after the height
\* this run saved last.
C5_Witness ==
    /\ saved_by_run /\ pc = "proc"
    /\ 1 < idx /\ idx <= raw_events
    /\ PyInt(file.text) = from_block - 1

\* C6: an iteration whose range query failed makes no relay attempt, and its
\* only step is the save: the save is tried with `to` and the cursor moves to
\* `to`.
C6_FailedFetchStillAdvances ==
    [][(InRun /\ pc = "proc" /\ fetched # "ok")
       => /\ raw_events = 0 /\ attempts = <<>>
          /\ SaveStep
          /\ last_processed_block' = to_block
          /\ \E io \in SaveOutcomes :
                file' = save_last_processed_block(file, to_block, io)]_vars

\* C6 witness: an iteration whose query failed has ended, saved and advanced.
C6_Witness ==
    /\ pc = "poll" /\ iter.kind = "scanned"
    /\ fetched \in {"BlockNotFound", "error"}
    /\ last_processed_block = requested.to
    /\ file = FileWith(PyStr(requested.to))
    /\ requested.to >= requested.from

\* A turn of the for loop: an entry is read and parsed.
DecodeStep == pc = "proc" /\ pc' \in {"proc", "poll"} /\ event_log' \in RawLogs

\* A turn of the for loop that made a relay attempt.
RelayStep == DecodeStep /\ Len(attempts') = Len(attempts) + 1

\* The end of a pass over a chunk, by the save or by an exception.
PassEnds == pc = "proc" /\ pc' = "poll"

\* C7: a log that fails decoding is dropped alone: the for loop goes on to
\* the next log, and the pass ends with the cursor moved to `to`.
C7_DecodeFailureDropsOneLog ==
    [][/\ (DecodeStep /\ parsed_event' # "event")
          => (pc' = "proc" /\ idx' = idx + 1 /\ attempts' = attempts)
       /\ PassEnds => (SaveStep /\ last_processed_block' = to_block)]_vars

\* C8: a failed relay attempt is not retried and does not stop the chunk: the
\* for loop goes on, no position of the chunk is attempted twice, and a pass
\* in which an attempt failed still ends with the cursor moved to `to`.
C8_RelayFailureNeverStopsChunk ==
    [][/\ RelayStep
          => /\ pc' = "proc" /\ idx' = idx + 1
             /\ attempts'[Len(attempts')][1] = idx
             /\ \A i \in 1..Len(attempts) : attempts[i][1] # idx
       /\ (PassEnds /\ \E i \in 1..Len(attempts) : attempts[i][3] = "False")
          => (SaveStep /\ last_processed_block' = to_block)]_vars

\* A raw log the relay must never see: amount 0, or sender or recipient
\* missing or empty.
Invalid(log) ==
    \/ log.amount_type = "int" /\ log.amount = 0
    \/ log.sender \in {Absent, ""}
    \/ log.recipient \in {Absent, ""}

\* C9: every event handed to the relay has a sender, a recipient and a
\* positive amount, and parse_event answers a raw log with amount 0 or with a
\* missing or empty sender or recipient by rejection (None).
C9_InvalidLogsRejected ==
    /\ \A i \in 1..Len(attempts) :
          /\ attempts[i][2].sender \notin {Absent, ""}
          /\ attempts[i][2].recipient \notin {Absent, ""}
          /\ attempts[i][2].amount_type = "int" /\ attempts[i][2].amount > 0
    /\ (event_log \in RawLogs /\ Invalid(event_log)) => parsed_event = "none"

\* A poll of a run that has asked for a range before and finds the chain at
\* the height it had then.
PollAtSameTip ==
    /\ pc = "poll" /\ pc' \in {"poll", "fetch"}
    /\ requested.any /\ latest_block' = requested.latest

\* C10: with the tip fixed at L, each further range starts right after the
\* one asked before it, holds between 1 and chunkSize blocks and ends at
\* min(previous to + chunkSize, L); the loop waits only once a range ended
\* at L.
C10_RangesTileToTip ==
    [][PollAtSameTip
       => /\ pc' = "fetch"
             => /\ from_block' = requested.to + 1
                /\ to_block' = Min(requested.to + chunk_size, requested.latest)
                /\ to_block' >= from_block'
                /\ to_block' - from_block' + 1 <= chunk_size
          /\ iter'.kind = "no_new_blocks" => requested.to = requested.latest]_vars

\* C11: a save that fails still moves the in-memory cursor to `to` and leaves
\* the state file as it was: every save over a file that holds a height ends
\* with the file either holding `to` (the save succeeded) or unchanged (it
\* failed), so that a restart loads the last height that was saved
\* successfully.
C11_FailedSaveKeepsCheckpoint ==
    [][(SaveStep /\ file.exists /\ IsIntText(file.text))
       => /\ last_processed_block' = to_block
          /\ \/ file' = FileWith(PyStr(to_block))
             \/ file' = file]_vars

\* The loop is left by the shutdown signal.
Cancelled == pc \in {"poll", "fetch", "proc"} /\ pc' = "stopped"

\* A chunk is partly dispatched: a relay attempt was made for one of its logs
\* and others are still waiting.
PartlyDispatched == pc = "proc" /\ attempts # <<>> /\ idx <= raw_events

\* C12: the shutdown signal never ends the loop with a chunk partly
\* dispatched.
C12_CancelOnlyBetweenIterations ==
    [][Cancelled => ~PartlyDispatched]_vars

PollStep == pc = "poll" /\ pc' \in {"poll", "fetch", "proc"}

\* C14: a poll in which the height is not available (the answer is 0) changes
\* neither the cursor nor the state file, asks for no range and makes no relay
\* attempt; the loop sleeps the poll interval and is back at the top.
C14_UnavailableChangesNothing ==
    [][(PollStep /\ latest_block' = 0)
       => /\ UNCHANGED <<last_processed_block, file, from_block, to_block,
                         requested, attempts, saved_by_run>>
          /\ pc' = "poll"
          /\ iter' = [kind |-> "unavailable", sleep |-> "poll_interval"]]_vars

\* C14 witness: the height was not available although the run is behind the
\* chain, after a range was scanned.
C14_Witness ==
    /\ pc = "poll" /\ iter.kind = "unavailable" /\ latest_block = 0
    /\ requested.any /\ last_processed_block = requested.to
    /\ last_processed_block < tip

\* C15: a poll that finds the cursor at or above the latest height waits: no
\* range is computed or asked for, no relay attempt is made, the cursor and
\* the state file stay as they are, and the loop sleeps the poll interval.
C15_NoNewBlocksWaits ==
    [][(PollStep /\ last_processed_block >= latest_block')
       => /\ UNCHANGED <<last_processed_block, file, from_block, to_block,
                         requested, attempts, saved_by_run>>
          /\ pc' = "poll"
          /\ iter'.sleep = "poll_interval"]_vars

\* C15 witness: the loop waits with the cursor above the latest height.
C15_Witness ==
    /\ pc = "poll" /\ iter.kind = "no_new_blocks"
    /\ last_processed_block > latest_block /\ latest_block > 0

\* C16: after a scanning iteration that completed, the sleep is the short one
\* exactly when to < latest and the poll interval exactly when to = latest.
C16_PacingByDistance ==
    (pc = "poll" /\ iter.kind = "scanned")
    => /\ last_processed_block = to_block
       /\ iter.sleep = "short" <=> to_block < latest_block
       /\ iter.sleep = "poll_interval" <=> to_block = latest_block

\* C16 witness: a completed iteration behind the tip, followed by the short
\* sleep.
C16_Witness ==
    /\ pc = "poll" /\ iter.kind = "scanned"
    /\ to_block >= from_block /\ to_block < latest_block
    /\ iter.sleep = "short"

\* C17: the height in the state file never decreases: a save that writes over
\* a file holding a height writes a height at least as high (here for the
\* chunk sizes of 1 and more and a file whose height the chain has reached).
C17_FileHeightMonotone ==
    [][(SaveStep /\ chunk_size >= 1
        /\ file.exists /\ IsIntText(file.text)
        /\ PyInt(file.text) <= latest_block
        /\ file' = FileWith(PyStr(to_block)))
       => to_block >= PyInt(file.text)]_vars

\* The running process ends without leaving the loop in order, and the script
\* is started again.
Crashed == pc \in {"poll", "fetch", "proc"} /\ pc' = "init"

\* The highest block the running process has fully processed: the `to` of the
\* chunk once its for loop is through, the cursor before that.
FullyProcessed ==
    IF pc = "proc" /\ idx > raw_events THEN to_block ELSE last_processed_block

\* C18: a crash skips no block.  Whatever the chain answers at the restart,
\* the first range the restarted process can compute from the state file the
\* crash leaves starts at or below (last fully processed height) + 1.  Stated
\* for a run with a height in its state file and for the chunk sizes of 1 and
\* more.
C18_CrashSkipsNoBlock ==
    [][(Crashed /\ chunk_size >= 1 /\ file.exists /\ IsIntText(file.text))
       => \A ok \in BOOLEAN, h \in tip..MaxHeight :
             FromBlock(load_last_processed_block(
                          file', get_latest_block_number(ok, h)))
                <= FullyProcessed + 1]_vars

\* C19: within one run no event goes to the relay twice: the first relay
\* attempt of a pass is never made for a range that shares a block with a range
\* of this run from which an event went to the relay before.
C19_NoEventRelayedTwice ==
    [][(RelayStep /\ attempts = <<>>) => ~requested.relayed]_vars

\* C20: every iteration that fetched a range and went through to its save
\* ends with the cursor above what it was before, whatever the chunk size.
C20_ScanAdvancesCursor ==
    [][SaveStep => last_processed_block' > last_processed_block]_vars

====
